---- MODULE Spec2Model ----
(***************************************************************************)
(* Model of app.py of OpenStudio-Python-Methods-Explorer: the memoized     *)
(* loader load_osm_file_as_model, the memoized catalog builder             *)
(* process_model_objects, and the module-level upload flow of one          *)
(* Streamlit session (temp file, try/except/finally, session state, main   *)
(* content guard).                                                         *)
(*                                                                         *)
(* Python strings are sequences of one-character strings, so that          *)
(* startswith, replace, strip, join, split and sorted are computed the way *)
(* Python computes them.                                                   *)
(***************************************************************************)
EXTENDS Integers, Sequences, FiniteSets, TLC

VARIABLES
    \* ---- process_model_objects, one call (specification SpecBuild) ----
    all_model_objects,      \* _model.getModelObjects(): the call's input
    loop_index,             \* number of objects the for loop has consumed
    loop_state,             \* the locals of the call (see InitialLocals)
    build_pc,               \* "loop", "returned" or "raised"
    build_result,           \* the call's outcome once it has ended
    \* ---- the upload flow of one session (specification Spec) ----
    pc,                     \* position of the script run
    runs,                   \* script runs with an uploaded file so far
    uploaded_file,          \* content of the file in the uploader, or NoFile
    file_path,              \* temp path of this run, or NoPath
    temp_files,             \* temp paths that exist on disk
    model,                  \* local 'model' of the run, or NoModel
    run_raised,             \* this run entered the except branch
    load_cache,             \* st.cache_resource of load_osm_file_as_model
    process_cache,          \* st.cache_resource of process_model_objects
    session_state,          \* st.session_state: key -> value
    rendered                \* what the main content area last drew

build_vars == <<all_model_objects, loop_index, loop_state, build_pc, build_result>>
flow_vars == <<pc, runs, uploaded_file, file_path, temp_files, model, run_raised,
               load_cache, process_cache, session_state, rendered>>
vars == <<all_model_objects, loop_index, loop_state, build_pc, build_result,
          pc, runs, uploaded_file, file_path, temp_files, model, run_raised,
          load_cache, process_cache, session_state, rendered>>

----------------------------------------------------------------------------
(* Bounds *)

\* Longest model (number of objects) process_model_objects is applied to.
MaxObjects == 3

\* Most script runs with an uploaded file in one process.
MaxRuns == 3

----------------------------------------------------------------------------
(* Python strings *)

\* Code points of the characters used (what sorted() and sort_values compare).
Ord ==
    (" " :> 32) @@ ("(" :> 40) @@ (")" :> 41) @@ ("," :> 44) @@ (":" :> 58) @@
    ("A" :> 65) @@ ("B" :> 66) @@ ("C" :> 67) @@ ("E" :> 69) @@ ("M" :> 77) @@
    ("N" :> 78) @@ ("O" :> 79) @@ ("S" :> 83) @@ ("X" :> 88) @@ ("_" :> 95) @@
    ("a" :> 97) @@ ("b" :> 98) @@ ("c" :> 99) @@ ("d" :> 100) @@ ("e" :> 101) @@
    ("f" :> 102) @@ ("g" :> 103) @@ ("h" :> 104) @@ ("i" :> 105) @@ ("l" :> 108) @@
    ("m" :> 109) @@ ("n" :> 110) @@ ("o" :> 111) @@ ("p" :> 112) @@
    ("r" :> 114) @@ ("s" :> 115) @@ ("t" :> 116) @@ ("u" :> 117) @@
    ("w" :> 119)

\* str.startswith
StartsWith(s, prefix) ==
    /\ Len(s) >= Len(prefix)
    /\ SubSeq(s, 1, Len(prefix)) = prefix

\* str.replace(old, new) for a non-empty old: every non-overlapping occurrence,
\* left to right.
RECURSIVE Replace(_, _, _)
Replace(s, old, new) ==
    IF s = <<>> THEN <<>>
    ELSE IF StartsWith(s, old)
         THEN new \o Replace(SubSeq(s, Len(old) + 1, Len(s)), old, new)
         ELSE <<Head(s)>> \o Replace(Tail(s), old, new)

RECURSIVE LStrip(_)
LStrip(s) ==
    IF s # <<>> /\ Head(s) = " " THEN LStrip(Tail(s)) ELSE s

RECURSIVE RStrip(_)
RStrip(s) ==
    IF s # <<>> /\ s[Len(s)] = " " THEN RStrip(SubSeq(s, 1, Len(s) - 1)) ELSE s

\* str.strip()
Strip(s) == RStrip(LStrip(s))

\* sep.join(list)
RECURSIVE Join(_, _)
Join(sep, list) ==
    IF list = <<>> THEN <<>>
    ELSE IF Len(list) = 1 THEN list[1]
         ELSE list[1] \o sep \o Join(sep, Tail(list))

\* The part of s before the first occurrence of the character ch.
RECURSIVE UpTo(_, _)
UpTo(s, ch) ==
    IF s = <<>> \/ Head(s) = ch THEN <<>> ELSE <<Head(s)>> \o UpTo(Tail(s), ch)

\* str.split(ch) for one character: always at least one part.
RECURSIVE Split(_, _)
Split(s, ch) ==
    LET first == UpTo(s, ch)
    IN  IF Len(first) = Len(s) THEN <<first>>
        ELSE <<first>> \o Split(SubSeq(s, Len(first) + 2, Len(s)), ch)

\* a < b for Python strings: by code point, a proper prefix first.
RECURSIVE StrLess(_, _)
StrLess(a, b) ==
    IF b = <<>> THEN FALSE
    ELSE IF a = <<>> THEN TRUE
    ELSE IF Ord[Head(a)] # Ord[Head(b)] THEN Ord[Head(a)] < Ord[Head(b)]
    ELSE StrLess(Tail(a), Tail(b))

\* Insert x into the sorted list after every element not greater than it.
RECURSIVE InsertSorted(_, _)
InsertSorted(x, list) ==
    IF list = <<>> THEN <<x>>
    ELSE IF StrLess(x, Head(list)) THEN <<x>> \o list
         ELSE <<Head(list)>> \o InsertSorted(x, Tail(list))

\* sorted(list) of strings.
RECURSIVE Sorted(_)
Sorted(list) ==
    IF list = <<>> THEN <<>>
    ELSE InsertSorted(list[Len(list)], Sorted(SubSeq(list, 1, Len(list) - 1)))

----------------------------------------------------------------------------
(* String literals of app.py *)

OS_PREFIX == <<"O", "S", ":">>                      \* "OS:"
TO_PREFIX == <<"t", "o", "_">>                      \* "to_"
COLON == <<":">>                                        \* ":"
UNDERSCORE == <<"_">>                                   \* '_'
COMMA_SPACE == <<",", " ">>                             \* ", "
\* "No public methods"
NO_PUBLIC_METHODS ==
    <<"N", "o", " ", "p", "u", "b", "l", "i", "c", " ", "m", "e", "t", "h", "o", "d", "s">>
\* "Error getting methods: "
ERROR_PREFIX ==
    <<"E", "r", "r", "o", "r", " ", "g", "e", "t", "t", "i", "n", "g", " ", "m", "e", "t", "h", "o", "d", "s", ":", " ">>

\* f"Error getting methods: {e}"
ErrorMarker(message) == ERROR_PREFIX \o message

----------------------------------------------------------------------------
(* The modeling SDK, as app.py uses it.  app.py treats it as a collaborator *)
(* whose calls return or raise; the tables below give it types of every    *)
(* kind the code distinguishes.                                            *)

TypeBuilding == <<"O", "S", ":", "B", "u", "i", "l", "d", "i", "n", "g">>   \* "OS:Building"
TypeBC == <<"O", "S", ":", "B", ":", "C">>           \* "OS:B:C"
TypeM == <<"O", "S", ":", "M">>                      \* "OS:M", no to_M accessor
TypeX == <<"X", ":", "A">>                           \* "X:A", not in the OS: namespace

\* What the SDK does for one object when app.py introspects it:
\*   present         to_X() returns an initialized optional
\*   absent          to_X() returns an optional with is_initialized() false
\*   wrapper_raises  is_initialized() or get() of the returned value raises
\*   call_raises     to_X() itself raises
\*   dir_raises      dir() of the unwrapped typed view raises
\*   resolve_raises  _model.getModelObject(handle).get() raises
Behaviours ==
    {"present", "absent", "wrapper_raises", "call_raises", "dir_raises", "resolve_raises"}

\* The kinds of object a model may contain: a type identifier and the SDK's
\* behaviour for it.  (Past the accessor lookup the behaviour of an OS:M object
\* is never consulted, nor is any behaviour of an X:A object.)
ObjectKinds ==
    {[type |-> t, beh |-> b] : t \in {TypeBuilding, TypeBC}, b \in Behaviours}
    \cup {[type |-> TypeM, beh |-> b] : b \in {"present", "resolve_raises"}}
    \cup {[type |-> TypeX, beh |-> "present"]}

\* A model's objects in enumeration order; the handle of an object is unique
\* within its model (here: its position).
ModelsOfLen(n) ==
    {[i \in 1..n |-> [type |-> k[i].type, beh |-> k[i].beh, handle |-> i]] :
        k \in [1..n -> ObjectKinds]}

Models == UNION {ModelsOfLen(n) : n \in 0..MaxObjects}

\* Members of the generic object handle (name, callable?): private members,
\* the to_ casts, public methods and the non-callable attribute 'this'.
GenericMembers ==
    << [name |-> <<"_", "s">>, callable |-> TRUE],
       [name |-> <<"h", "a", "n", "d", "l", "e">>, callable |-> TRUE],
       [name |-> <<"n", "a", "m", "e">>, callable |-> TRUE],
       [name |-> <<"t", "h", "i", "s">>, callable |-> FALSE],
       [name |-> <<"t", "o", "_", "B", "u", "i", "l", "d", "i", "n", "g">>, callable |-> TRUE],
       [name |-> <<"t", "o", "_", "B", "C">>, callable |-> TRUE] >>

\* Members of the typed view of each type: OS:Building adds two public methods
\* to the generic ones; OS:B:C exposes no public callable at all.
SpecificMembers(type) ==
    IF type = TypeBuilding
    THEN GenericMembers \o
         << [name |-> <<"s", "e", "t", "N", "o", "r", "t", "h">>, callable |-> TRUE],
            [name |-> <<"n", "o", "r", "t", "h">>, callable |-> TRUE] >>
    ELSE << [name |-> <<"_", "s">>, callable |-> TRUE],
            [name |-> <<"t", "h", "i", "s">>, callable |-> FALSE],
            [name |-> <<"t", "o", "_", "B", "C">>, callable |-> TRUE] >>

\* str(e) of the exceptions the SDK and Python raise (texts abbreviated; the
\* SDK's message for a failed call contains a comma).
MsgNoAttribute(name) == <<"n", "o", " ", "a", "t", "t", "r", "i", "b", "u", "t", "e", " ">> \o name
MsgCallRaises == <<"b", "a", "d", " ", "c", "a", "l", "l", ",", " ", "a", "r", "g", "s">>
MsgDirRaises == <<"d", "i", "r", " ", "f", "a", "i", "l", "e", "d">>
MsgUnboundLocal == <<"u", "n", "b", "o", "u", "n", "d", " ", "l", "o", "c", "a", "l">>

\* The value of the local 'specific_obj' before its first assignment.
Unassigned == [kind |-> "unassigned"]

\* obj_, the generic handle of an object.
GenericView(obj) == [kind |-> "generic", type |-> obj.type, handle |-> obj.handle, beh |-> obj.beh]

\* specific_obj_optional.get(), the typed view of an object.
SpecificView(obj) == [kind |-> "specific", type |-> obj.type, handle |-> obj.handle, beh |-> obj.beh]

Members(view) ==
    IF view.kind = "generic" THEN GenericMembers ELSE SpecificMembers(view.type)

\* hasattr(obj_, name)
HasAttr(name) == \E i \in 1..Len(GenericMembers) : GenericMembers[i].name = name

\* dir(view) raises
DirRaises(view) == view.kind = "specific" /\ view.beh = "dir_raises"

\* dir(view): the member names, sorted
Dir(view) == Sorted([i \in 1..Len(Members(view)) |-> Members(view)[i].name])

\* callable(getattr(view, m, None))
Callable(view, m) ==
    \E i \in 1..Len(Members(view)) : Members(view)[i].name = m /\ Members(view)[i].callable

\* [m for m in all_members if not (m.startswith('_') or m.startswith('to_'))
\*    and callable(getattr(specific_obj, m, None))]
RECURSIVE PublicMethods(_, _)
PublicMethods(view, all_members) ==
    IF all_members = <<>> THEN <<>>
    ELSE LET m == Head(all_members)
         IN  (IF ~(StartsWith(m, UNDERSCORE) \/ StartsWith(m, TO_PREFIX)) /\ Callable(view, m)
              THEN <<m>> ELSE <<>>)
             \o PublicMethods(view, Tail(all_members))

----------------------------------------------------------------------------
(* process_model_objects *)

\* The locals of one call before the for loop.  unique_object_types is a dict
\* (insertion-ordered): here the list of its items.  exc is the exception that
\* left the loop, or "none".
InitialLocals ==
    [unique_object_types |-> <<>>,
     sample_object_handles |-> <<>>,
     specific_obj |-> Unassigned,
     processed_count |-> 0,
     exc |-> "none"]

\* The keys of unique_object_types.
Keys(unique_object_types) == {unique_object_types[i].cls : i \in 1..Len(unique_object_types)}

\* unique_object_types[cls], for a key of the dict.
MethodsOf(unique_object_types, cls) ==
    unique_object_types[CHOOSE i \in 1..Len(unique_object_types) :
                            unique_object_types[i].cls = cls].methods

\* obj_class.replace("OS:", "to_").replace(":", "").strip()
DynamicMethodName(obj_class) ==
    Strip(Replace(Replace(obj_class, OS_PREFIX, TO_PREFIX), COLON, <<>>))

\* IsNewRecognizedType with a defect: the namespace test is left out.
IsNewTypeAnyPrefix(unique_object_types, obj_class) ==
    obj_class \notin Keys(unique_object_types)

\* obj_class not in unique_object_types and obj_class.startswith("OS:")
IsNewRecognizedType(unique_object_types, obj_class) ==
    /\ obj_class \notin Keys(unique_object_types)
    /\ StartsWith(obj_class, OS_PREFIX)

\* if obj_class not in sample_object_handles:
\*     sample_object_handles[obj_class] = obj_handle
RecordSample(sample_object_handles, obj_class, obj_handle) ==
    IF obj_class \notin DOMAIN sample_object_handles
    THEN sample_object_handles @@ (obj_class :> obj_handle)
    ELSE sample_object_handles

\* TryBlock with a defect: a missing or raising accessor falls back to the
\* generic handle instead of reaching the outer except.
TryBlockFallsBack(specific_obj, obj) ==
    LET dynamic_method_name == DynamicMethodName(obj.type)
        specific ==
            IF ~HasAttr(dynamic_method_name) \/ obj.beh \in {"call_raises", "wrapper_raises"}
            THEN GenericView(obj)
            ELSE IF obj.beh = "absent" THEN specific_obj
            ELSE SpecificView(obj)
    IN  IF specific = Unassigned
        THEN [specific_obj |-> specific, methods |-> <<ErrorMarker(MsgUnboundLocal)>>]
        ELSE IF DirRaises(specific)
        THEN [specific_obj |-> specific, methods |-> <<ErrorMarker(MsgDirRaises)>>]
        ELSE [specific_obj |-> specific,
              methods |-> Sorted(PublicMethods(specific, Dir(specific)))]

\* The outer try of the loop body for one representative: the value of
\* specific_obj after it and the list stored in unique_object_types[obj_class].
TryBlock(specific_obj, obj) ==
    LET dynamic_method_name == DynamicMethodName(obj.type)
    IN  IF ~HasAttr(dynamic_method_name)
        THEN \* getattr raises AttributeError: outer except
             [specific_obj |-> specific_obj,
              methods |-> <<ErrorMarker(MsgNoAttribute(dynamic_method_name))>>]
        ELSE IF obj.beh = "call_raises"
        THEN \* the accessor raises: outer except
             [specific_obj |-> specific_obj,
              methods |-> <<ErrorMarker(MsgCallRaises)>>]
        ELSE LET specific ==
                     IF obj.beh = "wrapper_raises" THEN GenericView(obj)  \* bare except
                     ELSE IF obj.beh = "absent" THEN specific_obj         \* no assignment
                     ELSE SpecificView(obj)
             IN  IF specific = Unassigned
                 THEN \* dir(specific_obj) raises UnboundLocalError: outer except
                      [specific_obj |-> specific,
                       methods |-> <<ErrorMarker(MsgUnboundLocal)>>]
                 ELSE IF DirRaises(specific)
                 THEN [specific_obj |-> specific,
                       methods |-> <<ErrorMarker(MsgDirRaises)>>]
                 ELSE [specific_obj |-> specific,
                       methods |-> Sorted(PublicMethods(specific, Dir(specific)))]

\* The body of the 'if' for the first object of a recognized type.
CatalogRepresentative(locals, obj) ==
    LET handles == RecordSample(locals.sample_object_handles, obj.type, obj.handle)
    IN  IF obj.beh = "resolve_raises"
        THEN \* _model.getModelObject(obj_handle).get() raises, outside the try
             [locals EXCEPT !.sample_object_handles = handles,
                            !.unique_object_types =
                                Append(@, [cls |-> obj.type, methods |-> <<>>]),
                            !.exc = "RuntimeError"]
        ELSE LET t == TryBlock(locals.specific_obj, obj)
             IN  [locals EXCEPT !.sample_object_handles = handles,
                                !.unique_object_types =
                                    Append(@, [cls |-> obj.type, methods |-> t.methods]),
                                !.specific_obj = t.specific_obj,
                                !.processed_count = @ + 1]

\* LoopBody with a defect: the handle is recorded for every recognized object,
\* so a later object of a type replaces the type's representative handle.
LoopBodyLastWins(locals, obj) ==
    IF ~IsNewRecognizedType(locals.unique_object_types, obj.type)
    THEN [locals EXCEPT !.processed_count = @ + 1,
                        !.sample_object_handles =
                            IF StartsWith(obj.type, OS_PREFIX)
                            THEN (obj.type :> obj.handle) @@ @
                            ELSE @]
    ELSE CatalogRepresentative(locals, obj)

\* One iteration of 'for obj in all_model_objects'.
LoopBody(locals, obj) ==
    IF ~IsNewRecognizedType(locals.unique_object_types, obj.type)
    THEN [locals EXCEPT !.processed_count = @ + 1]
    ELSE CatalogRepresentative(locals, obj)

\* The entry of 'data' for one item of unique_object_types.
DataEntry(item) ==
    [cls |-> item.cls,
     available |-> IF item.methods # <<>> THEN Join(COMMA_SPACE, item.methods)
                   ELSE NO_PUBLIC_METHODS]

\* The rows of processed_data for one entry of 'data'.
RowsOf(entry) ==
    LET list_of_strings == Split(entry.available, ",")
    IN  [j \in 1..Len(list_of_strings) |->
            [cls |-> entry.cls, method |-> Strip(list_of_strings[j])]]

\* processed_data, from the items of unique_object_types.
RECURSIVE ProcessedData(_)
ProcessedData(items) ==
    IF items = <<>> THEN <<>>
    ELSE RowsOf(DataEntry(Head(items))) \o ProcessedData(Tail(items))

\* Insert a row after every row whose type is not greater (rows of one type
\* keep their order).
RECURSIVE InsertRow(_, _)
InsertRow(row, rows) ==
    IF rows = <<>> THEN <<row>>
    ELSE IF StrLess(row.cls, Head(rows).cls) THEN <<row>> \o rows
         ELSE <<Head(rows)>> \o InsertRow(row, Tail(rows))

\* df.sort_values(by="Object Type (Class)").reset_index(drop=True)
RECURSIVE SortValues(_)
SortValues(rows) ==
    IF rows = <<>> THEN <<>>
    ELSE InsertRow(rows[Len(rows)], SortValues(SubSeq(rows, 1, Len(rows) - 1)))

\* The code after the loop.  pd.DataFrame([]) has no columns, so sort_values
\* by "Object Type (Class)" raises KeyError when there is no row.
Finish(locals) ==
    LET processed_data == ProcessedData(locals.unique_object_types)
    IN  IF processed_data = <<>>
        THEN [status |-> "raised", exc |-> "KeyError"]
        ELSE [status |-> "returned",
              df_sorted |-> SortValues(processed_data),
              sample_object_handles |-> locals.sample_object_handles]

\* The for loop from object i on.
RECURSIVE RunLoop(_, _, _)
RunLoop(locals, objects, i) ==
    IF i > Len(objects) \/ locals.exc # "none" THEN locals
    ELSE RunLoop(LoopBody(locals, objects[i]), objects, i + 1)

\* process_model_objects(_model), the function under the cache decorator.
process_model_objects(objects) ==
    LET locals == RunLoop(InitialLocals, objects, 1)
    IN  IF locals.exc # "none"
        THEN [status |-> "raised", exc |-> locals.exc]
        ELSE Finish(locals)

----------------------------------------------------------------------------
(* The upload flow: values *)

NoFile == "no file"
NoPath == 0
NoModel == [none |-> TRUE]
NoResult == [status |-> "none"]
InvalidFile == "invalid"

\* The flow's variables while no script run is in progress.
FlowIdle ==
    /\ pc = "idle"
    /\ runs = 0
    /\ uploaded_file = NoFile
    /\ file_path = NoPath
    /\ temp_files = {}
    /\ model = NoModel
    /\ run_raised = FALSE
    /\ load_cache = <<>>
    /\ process_cache = NoResult
    /\ session_state = <<>>
    /\ rendered = "nothing"

----------------------------------------------------------------------------
(* Specification SpecBuild: one call of process_model_objects, step by step, *)
(* on every model within the bounds.                                         *)

InitBuild ==
    /\ all_model_objects \in Models
    /\ loop_index = 0
    /\ loop_state = InitialLocals
    /\ build_pc = "loop"
    /\ build_result = NoResult
    /\ FlowIdle

\* The object the loop consumes next.
NextObject == all_model_objects[loop_index + 1]

\* An iteration that finds an already seen or unrecognized type.
SkipObject ==
    /\ build_pc = "loop"
    /\ loop_index < Len(all_model_objects)
    /\ ~IsNewRecognizedType(loop_state.unique_object_types, NextObject.type)
    /\ loop_state' = LoopBody(loop_state, NextObject)
    /\ loop_index' = loop_index + 1
    /\ UNCHANGED <<all_model_objects, build_pc, build_result>>
    /\ UNCHANGED flow_vars

\* An iteration that catalogues the representative of a new type.
CatalogType ==
    /\ build_pc = "loop"
    /\ loop_index < Len(all_model_objects)
    /\ IsNewRecognizedType(loop_state.unique_object_types, NextObject.type)
    /\ LoopBody(loop_state, NextObject).exc = "none"
    /\ loop_state' = LoopBody(loop_state, NextObject)
    /\ loop_index' = loop_index + 1
    /\ UNCHANGED <<all_model_objects, build_pc, build_result>>
    /\ UNCHANGED flow_vars

\* An iteration that an exception leaves (line 83, outside the try).
LoopRaises ==
    /\ build_pc = "loop"
    /\ loop_index < Len(all_model_objects)
    /\ IsNewRecognizedType(loop_state.unique_object_types, NextObject.type)
    /\ LoopBody(loop_state, NextObject).exc # "none"
    /\ loop_state' = LoopBody(loop_state, NextObject)
    /\ loop_index' = loop_index + 1
    /\ build_pc' = "raised"
    /\ build_result' = [status |-> "raised", exc |-> loop_state'.exc]
    /\ UNCHANGED all_model_objects
    /\ UNCHANGED flow_vars

\* The code after the loop returns the table and the handle map.
ReturnCatalog ==
    /\ build_pc = "loop"
    /\ loop_index = Len(all_model_objects)
    /\ Finish(loop_state).status = "returned"
    /\ build_pc' = "returned"
    /\ build_result' = Finish(loop_state)
    /\ UNCHANGED <<all_model_objects, loop_index, loop_state>>
    /\ UNCHANGED flow_vars

\* The code after the loop raises.
FinishRaises ==
    /\ build_pc = "loop"
    /\ loop_index = Len(all_model_objects)
    /\ Finish(loop_state).status = "raised"
    /\ build_pc' = "raised"
    /\ build_result' = Finish(loop_state)
    /\ UNCHANGED <<all_model_objects, loop_index, loop_state>>
    /\ UNCHANGED flow_vars

NextBuild ==
    \/ SkipObject
    \/ CatalogType
    \/ LoopRaises
    \/ ReturnCatalog
    \/ FinishRaises

SpecBuild == InitBuild /\ [][NextBuild]_vars

----------------------------------------------------------------------------
(* Specification Spec: script runs of one session in one process.           *)

\* The session-state keys the script publishes.
PublishedKeys == {"df_sorted", "sample_object_handles", "model"}

\* One object of an uploaded model.
Obj(type, beh, handle) == [type |-> type, beh |-> beh, handle |-> handle]

\* The files the user may put in the uploader: a file the SDK cannot load, and
\* the files of four models.
UploadFiles ==
    { InvalidFile,
      <<>>,
      <<Obj(TypeBuilding, "present", 1)>>,
      <<Obj(TypeBC, "present", 1), Obj(TypeBuilding, "present", 2)>>,
      <<Obj(TypeBuilding, "resolve_raises", 1)>> }

\* osm_model.building().get() raises unless the model has its building.
HasBuilding(objects) == \E i \in 1..Len(objects) : objects[i].type = TypeBuilding

\* load_osm_file_as_model under st.cache_resource, keyed by the path argument:
\* the outcome and the cache after the call.  A raising call caches nothing.
load_osm_file_as_model(cache, osm_file_path, content) ==
    IF osm_file_path \in DOMAIN cache
    THEN [status |-> "returned", model |-> cache[osm_file_path], cache |-> cache]
    ELSE IF content = InvalidFile
    THEN \* translator.loadModel(osm_file_path).get() raises
         [status |-> "raised", cache |-> cache]
    ELSE IF ~HasBuilding(content)
    THEN \* osm_model.building().get() raises in the print statement
         [status |-> "raised", cache |-> cache]
    ELSE LET osm_model == [path |-> osm_file_path, objects |-> content]
         IN  [status |-> "returned", model |-> osm_model,
              cache |-> cache @@ (osm_file_path :> osm_model)]

\* process_model_objects under st.cache_resource: '_model' is left out of the
\* cache key, so the key is the same for every call and the cache holds the
\* result of the first call that returned.
cached_process_model_objects(cache, _model) ==
    IF cache # NoResult
    THEN [result |-> cache, cache |-> cache]
    ELSE LET r == process_model_objects(_model.objects)
         IN  [result |-> r, cache |-> IF r.status = "returned" THEN r ELSE cache]

\* ClearPublished with a defect: the model is left in the session state.
ClearPublishedKeepsModel(state) ==
    [k \in DOMAIN state \ {"df_sorted", "sample_object_handles"} |-> state[k]]

\* del st.session_state[k] for each published key that is present.
ClearPublished(state) == [k \in DOMAIN state \ PublishedKeys |-> state[k]]

\* RemoveTempFile with a defect: the file is left on disk.
RemoveTempFileSkipped(files, path) == files

\* if os.path.exists(file_path): os.remove(file_path)
RemoveTempFile(files, path) ==
    IF path \in files THEN files \ {path} ELSE files

\* The three assignments to st.session_state.
Publish(state, result, osm_model) ==
    ("df_sorted" :> result.df_sorted)
    @@ ("sample_object_handles" :> result.sample_object_handles)
    @@ ("model" :> osm_model)
    @@ state

Init ==
    /\ all_model_objects = <<>>
    /\ loop_index = 0
    /\ loop_state = InitialLocals
    /\ build_pc = "loop"
    /\ build_result = NoResult
    /\ FlowIdle

\* A script run starts with a file in the uploader: the bytes are written to a
\* fresh temp file.
StartRun(f) ==
    /\ pc = "idle"
    /\ runs < MaxRuns
    /\ runs' = runs + 1
    /\ uploaded_file' = f
    /\ file_path' = runs + 1
    /\ temp_files' = temp_files \cup {runs + 1}
    /\ model' = NoModel
    /\ run_raised' = FALSE
    /\ pc' = "load"
    /\ UNCHANGED <<load_cache, process_cache, session_state, rendered>>
    /\ UNCHANGED build_vars

\* A script run starts with no file in the uploader: the sidebar block is skipped.
StartRunWithoutFile ==
    /\ pc = "idle"
    /\ uploaded_file' = NoFile
    /\ file_path' = NoPath
    /\ model' = NoModel
    /\ run_raised' = FALSE
    /\ pc' = "main"
    /\ UNCHANGED <<runs, temp_files, load_cache, process_cache, session_state, rendered>>
    /\ UNCHANGED build_vars

\* model = load_osm_file_as_model(file_path) returns.
LoadModel ==
    /\ pc = "load"
    /\ LET r == load_osm_file_as_model(load_cache, file_path, uploaded_file)
       IN  /\ r.status = "returned"
           /\ model' = r.model
           /\ load_cache' = r.cache
    /\ pc' = "process"
    /\ UNCHANGED <<runs, uploaded_file, file_path, temp_files, run_raised,
                   process_cache, session_state, rendered>>
    /\ UNCHANGED build_vars

\* load_osm_file_as_model(file_path) raises.
LoadModelRaises ==
    /\ pc = "load"
    /\ load_osm_file_as_model(load_cache, file_path, uploaded_file).status = "raised"
    /\ pc' = "except"
    /\ UNCHANGED <<runs, uploaded_file, file_path, temp_files, model, run_raised,
                   load_cache, process_cache, session_state, rendered>>
    /\ UNCHANGED build_vars

\* process_model_objects(model) returns and its result is published with the model.
ProcessModel ==
    /\ pc = "process"
    /\ LET r == cached_process_model_objects(process_cache, model)
       IN  /\ r.result.status = "returned"
           /\ process_cache' = r.cache
           /\ session_state' = Publish(session_state, r.result, model)
    /\ pc' = "finally"
    /\ UNCHANGED <<runs, uploaded_file, file_path, temp_files, model, run_raised,
                   load_cache, rendered>>
    /\ UNCHANGED build_vars

\* process_model_objects(model) raises.
ProcessModelRaises ==
    /\ pc = "process"
    /\ LET r == cached_process_model_objects(process_cache, model)
       IN  /\ r.result.status = "raised"
           /\ process_cache' = r.cache
    /\ pc' = "except"
    /\ UNCHANGED <<runs, uploaded_file, file_path, temp_files, model, run_raised,
                   load_cache, session_state, rendered>>
    /\ UNCHANGED build_vars

\* except Exception: the published keys are deleted.
ExceptBranch ==
    /\ pc = "except"
    /\ run_raised' = TRUE
    /\ session_state' = ClearPublished(session_state)
    /\ pc' = "finally"
    /\ UNCHANGED <<runs, uploaded_file, file_path, temp_files, model,
                   load_cache, process_cache, rendered>>
    /\ UNCHANGED build_vars

\* finally: the temp file is removed if it exists.
FinallyBranch ==
    /\ pc = "finally"
    /\ temp_files' = RemoveTempFile(temp_files, file_path)
    /\ pc' = "main"
    /\ UNCHANGED <<runs, uploaded_file, file_path, model, run_raised,
                   load_cache, process_cache, session_state, rendered>>
    /\ UNCHANGED build_vars

\* The main content area: the catalog when the three keys are present, the
\* upload prompt otherwise.  The run ends.
MainContent ==
    /\ pc = "main"
    /\ rendered' = IF PublishedKeys \subseteq DOMAIN session_state
                   THEN [df_sorted |-> session_state["df_sorted"],
                         sample_object_handles |-> session_state["sample_object_handles"],
                         model |-> session_state["model"]]
                   ELSE "upload prompt"
    /\ pc' = "idle"
    /\ UNCHANGED <<runs, uploaded_file, file_path, temp_files, model, run_raised,
                   load_cache, process_cache, session_state>>
    /\ UNCHANGED build_vars

Next ==
    \/ \E f \in UploadFiles : StartRun(f)
    \/ StartRunWithoutFile
    \/ LoadModel
    \/ LoadModelRaises
    \/ ProcessModel
    \/ ProcessModelRaises
    \/ ExceptBranch
    \/ FinallyBranch
    \/ MainContent

Spec == Init /\ [][Next]_vars

----------------------------------------------------------------------------
(* Vocabulary of the properties *)

\* The type identifiers with the recognized namespace prefix among the objects.
RecognizedTypes(objects) ==
    {objects[i].type : i \in {k \in 1..Len(objects) : StartsWith(objects[k].type, OS_PREFIX)}}

\* The position of the first object of a type in enumeration order.
FirstIndexOf(objects, type) ==
    CHOOSE i \in 1..Len(objects) :
        /\ objects[i].type = type
        /\ \A j \in 1..(i - 1) : objects[j].type # type

\* The first object of a type: the type's representative.
Representative(objects, type) == objects[FirstIndexOf(objects, type)]

\* The rows of a table that bear a type identifier, in table order.
RECURSIVE RowsFor(_, _)
RowsFor(df, type) ==
    IF df = <<>> THEN <<>>
    ELSE (IF Head(df).cls = type THEN <<Head(df).method>> ELSE <<>>) \o RowsFor(Tail(df), type)

\* The filtered, sorted callable members of a view.
OperationsOf(view) == Sorted(PublicMethods(view, Dir(view)))

\* An operation list that is one error marker.
IsErrorList(methods) == Len(methods) = 1 /\ StartsWith(methods[1], ERROR_PREFIX)

\* The derived accessor of the object is missing on the generic handle, or raises.
AccessorFails(obj) == ~HasAttr(DynamicMethodName(obj.type)) \/ obj.beh = "call_raises"

\* Processing the object as a representative fails somewhere: resolving it,
\* invoking the accessor, unwrapping, or enumerating members.
IntrospectionFails(obj) ==
    \/ AccessorFails(obj)
    \/ obj.beh \in {"resolve_raises", "wrapper_raises", "dir_raises"}

\* The model with the SDK behaving well for object i.
Healed(objects, i) == [objects EXCEPT ![i].beh = "present"]

\* The call has returned and this is the catalog's operation list of a type.
CatalogOf(type) == MethodsOf(loop_state.unique_object_types, type)

----------------------------------------------------------------------------
(* Properties of process_model_objects (specification SpecBuild) *)

\* C2: the representative-handle map returned has exactly the recognized type
\* identifiers of the model as keys, and the entry of a type is the handle of
\* the first object of that type in enumeration order.
C2_FirstObjectIsRepresentative ==
    build_pc = "returned" =>
        LET handles == build_result.sample_object_handles
        IN  /\ DOMAIN handles = RecognizedTypes(all_model_objects)
            /\ \A t \in DOMAIN handles :
                   handles[t] = Representative(all_model_objects, t).handle

\* C2 witness: a build returned for a model in which a recognized type occurs
\* again after its first object.
C2_Witness ==
    /\ build_pc = "returned"
    /\ \E i, j \in 1..Len(all_model_objects) :
           /\ i < j
           /\ all_model_objects[i].type = all_model_objects[j].type
           /\ StartsWith(all_model_objects[i].type, OS_PREFIX)

\* C3 (as claimed): for a model with zero objects the call returns an empty
\* table and an empty representative-handle map and raises no error.
C3_EmptyModelReturnsEmptyCatalog ==
    (all_model_objects = <<>> /\ build_pc # "loop") =>
        /\ build_pc = "returned"
        /\ build_result.df_sorted = <<>>
        /\ DOMAIN build_result.sample_object_handles = {}

C5_RowsPerType ==
    build_pc = "returned" =>
        \A t \in Keys(loop_state.unique_object_types) :
            LET rows == Len(RowsFor(build_result.df_sorted, t))
            IN  IF CatalogOf(t) = <<>> \/ IsErrorList(CatalogOf(t))
                THEN rows = 1
                ELSE rows = Len(CatalogOf(t))

\* C7 (as claimed): when processing a type's representative fails, the call
\* still returns, the type has an error-marker list, and the rows and handles
\* of every other type are those of the same model without the failure.
C7_FailureIsIsolated ==
    build_pc # "loop" =>
        \A t \in RecognizedTypes(all_model_objects) :
            LET i == FirstIndexOf(all_model_objects, t)
                healed == process_model_objects(Healed(all_model_objects, i))
            IN  IntrospectionFails(all_model_objects[i]) =>
                    /\ build_pc = "returned"
                    /\ IsErrorList(CatalogOf(t))
                    /\ healed.status = "returned"
                    /\ \A u \in RecognizedTypes(all_model_objects) \ {t} :
                           /\ RowsFor(build_result.df_sorted, u) = RowsFor(healed.df_sorted, u)
                           /\ build_result.sample_object_handles[u]
                                  = healed.sample_object_handles[u]

\* C8: when the call returns, the type identifiers in the table are exactly the
\* recognized type identifiers of the model, no unrecognized type has a handle,
\* and the call returns whenever the model has a recognized object and every
\* representative can be resolved.
C8_CatalogedTypesAreRecognizedTypes ==
    /\ build_pc = "returned" =>
           /\ {build_result.df_sorted[i].cls : i \in 1..Len(build_result.df_sorted)}
                  = RecognizedTypes(all_model_objects)
           /\ \A t \in DOMAIN build_result.sample_object_handles :
                  StartsWith(t, OS_PREFIX)
    /\ (/\ build_pc = "raised"
        /\ RecognizedTypes(all_model_objects) # {})
           => \E i \in 1..Len(all_model_objects) :
                  all_model_objects[i].beh = "resolve_raises"

\* C8 witness: a build returned for a model with an unrecognized object, a
\* recognized type without public operations and a second recognized type.
C8_Witness ==
    /\ build_pc = "returned"
    /\ \E i \in 1..Len(all_model_objects) :
           ~StartsWith(all_model_objects[i].type, OS_PREFIX)
    /\ \E t \in RecognizedTypes(all_model_objects) : CatalogOf(t) = <<>>
    /\ Cardinality(RecognizedTypes(all_model_objects)) >= 2

\* C10 (as claimed): the operation list of a type is the operations of its own
\* representative's typed view, those of its generic handle, or an error
\* marker.
C10_OwnRepresentativeOnly ==
    build_pc = "returned" =>
        \A t \in Keys(loop_state.unique_object_types) :
            LET rep == Representative(all_model_objects, t)
            IN  \/ CatalogOf(t) = OperationsOf(SpecificView(rep))
                \/ CatalogOf(t) = OperationsOf(GenericView(rep))
                \/ IsErrorList(CatalogOf(t))

----------------------------------------------------------------------------
(* Properties of the upload flow (specification Spec) *)

\* C1 (as claimed): the table and the handle map in the session state are the
\* ones process_model_objects builds from the model published with them
\* (compared whenever that model can be built at all).
C1_CatalogBuiltFromPublishedModel ==
    PublishedKeys \subseteq DOMAIN session_state =>
        LET built == process_model_objects(session_state["model"].objects)
        IN  built.status = "returned" =>
                /\ session_state["df_sorted"] = built.df_sorted
                /\ session_state["sample_object_handles"] = built.sample_object_handles

\* C6: once a run has entered the except branch, none of the three published
\* keys is in the session state for the rest of the run, and the main content
\* area draws the upload prompt.
C6_FailedRunPublishesNothing ==
    (run_raised /\ pc \in {"finally", "main", "idle"}) =>
        /\ DOMAIN session_state \cap PublishedKeys = {}
        /\ pc = "idle" => rendered = "upload prompt"

\* C6 witness: a run that raised has ended, after an earlier run had published
\* a catalog.
C6_Witness ==
    /\ pc = "idle"
    /\ run_raised
    /\ process_cache # NoResult
    /\ rendered = "upload prompt"

====
